---- MODULE Spec2Model ----
(***************************************************************************)
(* Star Chart AI proxy: the persistent service (server.js, shipped inside  *)
(* start.command) and the edge worker (worker.js).                         *)
(*                                                                         *)
(* Strings whose characters matter (user input, turn content, provider     *)
(* text) are sequences of one-character strings, so that trim() and        *)
(* slice() are computed character by character.  Error strings are         *)
(* sequences of fragments: a fixed literal of the source is one fragment.  *)
(* A JavaScript value is a record [t |-> typeof-like tag, v |-> String(x)].*)
(***************************************************************************)
EXTENDS Integers, Sequences, FiniteSets, TLC

\* ------------------------------------------------------------------------
\* Bounds of the model
\* ------------------------------------------------------------------------
MaxHistLen == 26
\* requests handled at the same time
NumReqs == 2

\* ------------------------------------------------------------------------
\* Program constants
\* ------------------------------------------------------------------------
MaxContentLen == 4000
HistoryCap == 24

\* ------------------------------------------------------------------------
\* JavaScript values and strings
\* ------------------------------------------------------------------------
JS(t, v) == [t |-> t, v |-> v]

Undefined == JS("undefined", <<"undefined">>)
Null == JS("null", <<"null">>)
Str(s) == JS("string", s)

IsWs(c) == c \in {" ", "\n", "\t"}

Min(a, b) == IF a <= b THEN a ELSE b
Max(a, b) == IF a >= b THEN a ELSE b

\* the first index from i upwards, the last from i downwards, whose
\* character is not white space
RECURSIVE FirstNonWs(_, _)
FirstNonWs(s, i) ==
  IF i > Len(s) \/ ~IsWs(s[i]) THEN i ELSE FirstNonWs(s, i + 1)

RECURSIVE LastNonWs(_, _)
LastNonWs(s, i) ==
  IF i < 1 \/ ~IsWs(s[i]) THEN i ELSE LastNonWs(s, i - 1)

\* String.prototype.trim
Trim(s) == SubSeq(s, FirstNonWs(s, 1), LastNonWs(s, Len(s)))

\* s.slice(0, n) for n >= 0
SlicePrefix(s, n) == SubSeq(s, 1, Min(n, Len(s)))

\* a.slice(-n) for n > 0
SliceLast(a, n) == SubSeq(a, Max(Len(a) - n, 0) + 1, Len(a))

\* truthiness of a JavaScript value
Truthy(x) ==
  CASE x.t = "undefined" -> FALSE
    [] x.t = "null" -> FALSE
    [] x.t = "string" -> x.v # <<>>
    [] x.t = "number" -> x.v # <<"0">>
    [] x.t = "boolean" -> x.v = <<"true">>
    [] OTHER -> TRUE

\* n copies of the character c
Rep(c, n) == SubSeq([i \in 1..n |-> c], 1, n)

\* ------------------------------------------------------------------------
\* normalizeHistory (identical in both variants)
\* ------------------------------------------------------------------------
\* A history element: t is "object" for an object, otherwise the element is
\* null or a primitive; role is the element's role field, content its content.
Item(t, role, content) == [t |-> t, role |-> role, content |-> content]
Turn(role, s) == Item("object", role, Str(s))

\* a history value: not an array, or an array of elements
NotArray == [isArray |-> FALSE, items |-> <<>>]
Arr(items) == [isArray |-> TRUE, items |-> items]

RECURSIVE PushSafe(_, _, _)
PushSafe(items, i, safe) ==
  IF i > Len(items) THEN safe
  ELSE LET item == items[i]
       IN IF item.t # "object" THEN PushSafe(items, i + 1, safe)
          ELSE IF item.role # "user" /\ item.role # "assistant"
                 THEN PushSafe(items, i + 1, safe)
          ELSE IF item.content.t # "string" \/ Trim(item.content.v) = <<>>
                 THEN PushSafe(items, i + 1, safe)
          ELSE PushSafe(items, i + 1,
                 Append(safe, [role |-> item.role,
                               content |-> SlicePrefix(Trim(item.content.v), MaxContentLen)]))

\* mutant: the cap is applied to the raw array, before the filter
normalizeHistory_capFirst(history) ==
  IF ~history.isArray THEN <<>>
  ELSE PushSafe(SliceLast(history.items, HistoryCap), 1, <<>>)

\* mutant: the trailing slice(-24) is dropped
normalizeHistory_noCap(history) ==
  IF ~history.isArray THEN <<>>
  ELSE PushSafe(history.items, 1, <<>>)

normalizeHistory(history) ==
  IF ~history.isArray THEN <<>>
  ELSE SliceLast(PushSafe(history.items, 1, <<>>), HistoryCap)

\* ------------------------------------------------------------------------
\* Inbound request bodies and readJson
\* ------------------------------------------------------------------------
MaxBodyBytes == 1000000

\* A decoded JSON body: t = "object" carries the three fields; any other JSON
\* value (null, a number, ...) has no fields, so body?.x is undefined.
BodyObj(input, history, telemetry) ==
  [t |-> "object", input |-> input, history |-> history, telemetry |-> telemetry]
BodyNull == [t |-> "null", input |-> Undefined, history |-> NotArray, telemetry |-> Undefined]
BodyNum == [t |-> "number", input |-> Undefined, history |-> NotArray, telemetry |-> Undefined]

\* A raw body: its byte size, whether its text is blank, malformed or JSON,
\* and the value JSON.parse yields for it.
RawBody(size, text, val) == [size |-> size, text |-> text, val |-> val]

Returned(val) == [threw |-> FALSE, val |-> val]
Threw == [threw |-> TRUE, val |-> BodyNull]

\* server.js readJson
readJson_server(body) ==
  IF body.size > MaxBodyBytes THEN Threw
  ELSE IF body.text = "blank" THEN Returned(BodyNull)
  ELSE IF body.text = "malformed" THEN Threw
  ELSE Returned(body.val)

\* worker.js readJson
readJson_worker(body) ==
  IF body.text = "blank" THEN Returned(BodyNull)
  ELSE IF body.text = "malformed" THEN Threw
  ELSE Returned(body.val)

\* body?.input, body?.history, body?.telemetry
FieldInput(val) == IF val.t = "object" THEN val.input ELSE Undefined
FieldHistory(val) == IF val.t = "object" THEN val.history ELSE NotArray
FieldTelemetry(val) == IF val.t = "object" THEN val.telemetry ELSE Undefined

\* ------------------------------------------------------------------------
\* Instruction and conversation
\* ------------------------------------------------------------------------
Persona == "You are Star Chart AI ... what you would need to confirm."

\* For an object, v holds JSON.stringify(x, null, 2) as one fragment.
telemetryJson(telemetry) ==
  IF Truthy(telemetry) /\ telemetry.t = "object" THEN telemetry.v ELSE <<"{}">>

systemPrompt(telemetry) ==
  <<Persona, "\n\nTelemetry snapshot (JSON):\n">> \o telemetryJson(telemetry)

\* String(input || "").trim().slice(0, 4000)
userInputOf(input) ==
  SlicePrefix(Trim(IF Truthy(input) THEN input.v ELSE <<>>), MaxContentLen)

\* `${m.role === "user" ? "User" : "Assistant"}: ${m.content}`
RenderTurn(m) ==
  <<IF m.role = "user" THEN "User: " ELSE "Assistant: ">> \o m.content

\* lines.join("\n")
RECURSIVE JoinLines(_)
JoinLines(lines) ==
  IF lines = <<>> THEN <<>>
  ELSE IF Len(lines) = 1 THEN lines[1]
  ELSE lines[1] \o <<"\n">> \o JoinLines(Tail(lines))

MapRender(turns) == [i \in 1..Len(turns) |-> RenderTurn(turns[i])]

\* server.js: the message array shared by both attempts
messagesOf(input, history, telemetry) ==
  <<[role |-> "system", content |-> systemPrompt(telemetry)]>>
    \o normalizeHistory(history)
    \o <<[role |-> "user", content |-> userInputOf(input)]>>

\* mutant: the system message is rendered into the transcript as well
transcript_server_noFilter(messages) ==
  JoinLines(MapRender(messages))

\* server.js tryResponsesApi: the transcript
transcript_server(messages) ==
  JoinLines(MapRender(SelectSeq(messages, LAMBDA m : m.role # "system")))

\* worker.js: the transcript
transcript_worker(input, history) ==
  JoinLines(MapRender(normalizeHistory(history))
              \o <<<<"User: ">> \o userInputOf(input)>>)

\* an outbound provider call
ResponsesCall(instructions, input) ==
  [proto |-> "responses", instructions |-> instructions, input |-> input, messages |-> <<>>]
\* mutant: the retry goes to the primary endpoint again
ChatCall_responsesAgain(messages) ==
  [proto |-> "responses", instructions |-> <<>>, input |-> <<>>, messages |-> messages]

ChatCall(messages) ==
  [proto |-> "chat", instructions |-> <<>>, input |-> <<>>, messages |-> messages]

\* ------------------------------------------------------------------------
\* Provider responses and their normalisation
\* ------------------------------------------------------------------------
\* data = await response.json().catch(() => null): json is FALSE when the
\* body was not JSON (data is null).  errMsg is data.error?.message,
\* raw is JSON.stringify(data) as one fragment, output_text, output and
\* content (choices?.[0]?.message?.content) are the fields the code reads.
\* output: kind "undefined", "array" (items: each item its content array of
\* parts [type, text]) or "noniterable" (a truthy value for...of rejects).
Data(json, errMsg, raw, output_text, output, content) ==
  [json |-> json, errMsg |-> errMsg, raw |-> raw,
   output_text |-> output_text, output |-> output, content |-> content]

NoOutput == [kind |-> "undefined", items |-> <<>>]
OutputArr(items) == [kind |-> "array", items |-> items]
BadOutput == [kind |-> "noniterable", items |-> <<>>]
Part(type, text) == [type |-> type, text |-> text]

NullData == Data(FALSE, Undefined, <<"null">>, Undefined, NoOutput, Undefined)

\* a reply of the provider: the fetch rejected (threw), or a status and data
Reply(status, data) == [threw |-> FALSE, status |-> status, data |-> data]
TransportFailure == [threw |-> TRUE, status |-> 0, data |-> NullData]

\* response.ok
StatusOk(status) == status >= 200 /\ status <= 299

\* a CompletionResult; threw marks an exception leaving the function
\* model is the model field, which only worker.js sets (on success)
Ok(text) ==
  [ok |-> TRUE, status |-> 200, text |-> text, error |-> <<>>, threw |-> FALSE,
   model |-> <<>>]
Fail(status, error) ==
  [ok |-> FALSE, status |-> status, text |-> <<>>, error |-> error, threw |-> FALSE,
   model |-> <<>>]
Raised ==
  [ok |-> FALSE, status |-> 0, text |-> <<>>, error |-> <<>>, threw |-> TRUE,
   model |-> <<>>]
NoResult ==
  [ok |-> FALSE, status |-> 0, text |-> <<>>, error |-> <<>>, threw |-> FALSE,
   model |-> <<>>]

\* server.js: process.env.CCD_AI_OPENAI_MODEL || "gpt-4.1-mini"
OPENAI_MODEL_server(env) == IF Truthy(env) THEN env.v ELSE <<"gpt-4.1-mini">>

\* worker.js: env.OPENAI_MODEL || "gpt-4.1"
OPENAI_MODEL_worker(env) == IF Truthy(env) THEN env.v ELSE <<"gpt-4.1">>

\* worker.js: { ok: true, status: 200, text, model: OPENAI_MODEL }
withModel(res, model) == IF res.ok THEN [res EXCEPT !.model = model] ELSE res

\* data && typeof data === "object" ? data.error?.message || JSON.stringify(data)
\*                                   : "Unknown error"
detailOf(data) ==
  IF data.json
    THEN IF Truthy(data.errMsg) THEN data.errMsg.v ELSE data.raw
    ELSE <<"Unknown error">>

\* the chunks pushed by the two nested loops over data?.output
RECURSIVE PartsText(_)
PartsText(parts) ==
  IF parts = <<>> THEN <<>>
  ELSE (IF parts[1].type = "output_text" /\ parts[1].text.t = "string"
          THEN <<parts[1].text.v>> ELSE <<>>)
       \o PartsText(Tail(parts))

RECURSIVE ChunksOf(_)
ChunksOf(items) ==
  IF items = <<>> THEN <<>>
  ELSE PartsText(items[1]) \o ChunksOf(Tail(items))

\* chunks.join("\n").trim()
chunkText(data) == Trim(JoinLines(ChunksOf(data.output.items)))

\* server.js tryResponsesApi, from the reply on
tryResponsesApi(reply) ==
  IF reply.threw THEN Raised
  ELSE IF ~StatusOk(reply.status) THEN Fail(reply.status, detailOf(reply.data))
  ELSE IF reply.data.output_text.t = "string" /\ Trim(reply.data.output_text.v) # <<>>
    THEN Ok(reply.data.output_text.v)
  ELSE IF reply.data.output.kind = "noniterable" THEN Raised
  ELSE IF chunkText(reply.data) = <<>>
    THEN Fail(502, <<"OpenAI response missing text.">>)
  ELSE Ok(chunkText(reply.data))

\* mutant: any string content is taken as the text, blank or not
tryChatCompletionsApi_noTrim(reply) ==
  IF reply.threw THEN Raised
  ELSE IF ~StatusOk(reply.status) THEN Fail(reply.status, detailOf(reply.data))
  ELSE IF reply.data.content.t # "string"
    THEN Fail(502, <<"OpenAI response missing text.">>)
  ELSE Ok(reply.data.content.v)

\* server.js tryChatCompletionsApi, from the reply on
tryChatCompletionsApi(reply) ==
  IF reply.threw THEN Raised
  ELSE IF ~StatusOk(reply.status) THEN Fail(reply.status, detailOf(reply.data))
  ELSE IF reply.data.content.t # "string" \/ Trim(reply.data.content.v) = <<>>
    THEN Fail(502, <<"OpenAI response missing text.">>)
  ELSE Ok(reply.data.content.v)

\* mutant: the missing-text check is dropped
workerResult_noTextCheck(reply) ==
  IF reply.threw THEN Raised
  ELSE IF ~StatusOk(reply.status) THEN Fail(reply.status, detailOf(reply.data))
  ELSE IF reply.data.output_text.t = "string" /\ Trim(reply.data.output_text.v) # <<>>
    THEN Ok(Trim(reply.data.output_text.v))
  ELSE IF reply.data.output.kind = "noniterable" THEN Raised
  ELSE Ok(chunkText(reply.data))

\* worker.js callOpenAI, from the reply on
workerResult(reply) ==
  IF reply.threw THEN Raised
  ELSE IF ~StatusOk(reply.status) THEN Fail(reply.status, detailOf(reply.data))
  ELSE IF reply.data.output_text.t = "string" /\ Trim(reply.data.output_text.v) # <<>>
    THEN Ok(Trim(reply.data.output_text.v))
  ELSE IF reply.data.output.kind = "noniterable" THEN Raised
  ELSE IF chunkText(reply.data) = <<>>
    THEN Fail(502, <<"OpenAI response missing text.">>)
  ELSE Ok(chunkText(reply.data))

\* server.js callOpenAI before the first fetch: the result it returns at
\* once, or NoResult when it goes on to the primary attempt
serverPrecheck(key) ==
  IF ~Truthy(key)
    THEN Fail(500, <<"Missing OPENAI_API_KEY in environment.">>)
    ELSE NoResult

\* mutant: the input is validated before the credential
workerPrecheck_inputFirst(key, input) ==
  IF userInputOf(input) = <<>> THEN Fail(400, <<"Missing input.">>)
  ELSE IF ~Truthy(key) THEN Fail(500, <<"Missing OPENAI_API_KEY.">>)
  ELSE NoResult

\* worker.js callOpenAI before the fetch
workerPrecheck(key, input) ==
  IF ~Truthy(key) THEN Fail(500, <<"Missing OPENAI_API_KEY.">>)
  ELSE IF userInputOf(input) = <<>> THEN Fail(400, <<"Missing input.">>)
  ELSE NoResult

\* mutant: a missing-text 502 is treated as fallback-eligible
fallbackableStatuses_with502 == {400, 404, 405, 415, 502}

\* mutant: a server error is treated as fallback-eligible
fallbackableStatuses_with500 == {400, 404, 405, 415, 500}

\* mutant: the 404 is left out
fallbackableStatuses_no404 == {400, 405, 415}

fallbackableStatuses == {400, 404, 405, 415}

\* mutant: the composite failure reports the primary's status
compositeFailure_primaryStatus(responsesResult, chatResult) ==
  Fail(responsesResult.status,
       <<"Responses API error: ">> \o responsesResult.error
         \o <<"\n", "Chat Completions error: ">> \o chatResult.error)

\* server.js callOpenAI: the result when both attempts failed
compositeFailure(responsesResult, chatResult) ==
  Fail(chatResult.status,
       <<"Responses API error: ">> \o responsesResult.error
         \o <<"\n", "Chat Completions error: ">> \o chatResult.error)

\* ------------------------------------------------------------------------
\* HTTP responses
\* ------------------------------------------------------------------------
Response(status, ctype, kind, text, error, hasKey, model) ==
  [sent |-> TRUE, status |-> status, ctype |-> ctype, kind |-> kind,
   text |-> text, error |-> error, hasKey |-> hasKey, model |-> model]
NoResponse ==
  [sent |-> FALSE, status |-> 0, ctype |-> "none", kind |-> "none",
   text |-> <<>>, error |-> <<>>, hasKey |-> FALSE, model |-> <<>>]

\* { ok: false, error }
JsonError(status, error) == Response(status, "json", "error", <<>>, error, FALSE, <<>>)
\* { ok: true, text, model }
JsonChat(text, model) == Response(200, "json", "chat", text, <<>>, FALSE, model)
\* mutant: hasKey is true whenever it is asked for
JsonHealth_alwaysKey(hasKey, model) ==
  Response(200, "json", "health", <<>>, <<>>, TRUE, model)

\* { ok: true, app, version, model, hasKey }
JsonHealth(hasKey, model) == Response(200, "json", "health", <<>>, <<>>, hasKey, model)
\* server.js sendText
PlainText(status, text) == Response(status, "text", "plain", text, <<>>, FALSE, <<>>)
\* 204 with no body
Preflight == Response(204, "none", "empty", <<>>, <<>>, FALSE, <<>>)
\* server.js serveStatic: a file's bytes
StaticFile == Response(200, "file", "static", <<>>, <<>>, FALSE, <<>>)

\* mutant: a failed result is answered with status 200
respond_always200(result, model) ==
  IF ~result.ok THEN JsonError(200, result.error) ELSE JsonChat(result.text, model)

\* if (!result.ok) ... { ok: false, error } else { ok: true, text, model }
respond(result, model) ==
  IF ~result.ok THEN JsonError(result.status, result.error)
  ELSE JsonChat(result.text, model)

\* url.pathname.startsWith("/api/")
ApiPaths == {"/api/chat", "/api/health", "/api/other"}
Paths == ApiPaths \cup {"/index.html"}
Methods == {"GET", "HEAD", "POST", "PUT", "OPTIONS"}

\* ------------------------------------------------------------------------
\* Inputs of the model
\* ------------------------------------------------------------------------
Inputs ==
  {Undefined, Null, Str(<<>>), Str(<<" ", " ">>), Str(<<" ", "h", "i", " ">>),
   Str(<<"h", "i">>), JS("number", <<"0">>), JS("number", <<"7">>),
   JS("boolean", <<"false">>)}

Histories ==
  {NotArray,
   Arr(<<Turn("user", <<" ", "q", " ">>), Item("null", "undefined", Undefined),
         Turn("system", <<"s">>), Turn("assistant", <<"a">>)>>)}

Telemetries == {Undefined, JS("object", <<"{ line1: { oee: 0.82 } }">>)}

JsonBodies ==
  {BodyObj(i, h, t) : i \in Inputs, h \in Histories, t \in Telemetries}
    \cup {BodyNull, BodyNum}

RawBodies ==
  {RawBody(0, "blank", BodyNull), RawBody(3, "blank", BodyNull),
   RawBody(MaxBodyBytes + 1, "blank", BodyNull),
   RawBody(7, "malformed", BodyNull), RawBody(MaxBodyBytes + 1, "malformed", BodyNull),
   RawBody(MaxBodyBytes + 1, "json",
           BodyObj(Str(<<"h", "i">>), NotArray, Undefined))}
    \cup {RawBody(64, "json", v) : v \in JsonBodies}

Requests ==
  {[method |-> m, path |-> pth, body |-> RawBody(0, "blank", BodyNull)] :
     m \in Methods, pth \in Paths}
    \cup {[method |-> "POST", path |-> "/api/chat", body |-> b] : b \in RawBodies}
    \cup {[method |-> m, path |-> "/api/chat",
           body |-> RawBody(64, "json", BodyObj(Str(<<"h", "i">>), NotArray, Undefined))] :
            m \in {"PUT", "OPTIONS"}}

ApiKeys == {Undefined, Str(<<>>), Str(<<"sk-test">>)}

ModelEnvs == {Undefined, Str(<<"gpt-x">>)}

ErrorStatuses == {400, 401, 404, 405, 415, 429, 500, 502, 503}
OkStatuses == {200, 201}

ErrorData ==
  {NullData,
   Data(TRUE, Str(<<"model not found">>), <<"{error}">>, Undefined, NoOutput, Undefined),
   Data(TRUE, Str(<<"rate limited">>), <<"{error}">>, Undefined, NoOutput, Undefined),
   Data(TRUE, Str(<<>>), <<"{error:{message:}}">>, Undefined, NoOutput, Undefined),
   Data(TRUE, Undefined, <<"{}">>, Undefined, NoOutput, Undefined)}

OutputTexts ==
  {Undefined, Str(<<"H", "i">>), Str(<<" ", "H", "i", " ">>), Str(<<" ", " ">>),
   JS("number", <<"7">>)}

Outputs ==
  {NoOutput, OutputArr(<<>>), BadOutput,
   OutputArr(<<<<Part("output_text", Str(<<" ", "A">>)), Part("reasoning", Str(<<"X">>)),
                 Part("output_text", JS("number", <<"7">>))>>,
               <<>>,
               <<Part("output_text", Str(<<"B", " ">>))>>>>),
   OutputArr(<<<<Part("output_text", Str(<<" ">>)), Part("output_text", Str(<<>>))>>>>)}

ResponsesData ==
  {Data(TRUE, Undefined, <<"{response}">>, ot, out, Undefined) :
     ot \in OutputTexts, out \in Outputs} \cup {NullData}

Contents ==
  {Undefined, Str(<<"H", "i", " ", "t", "h", "e", "r", "e">>), Str(<<" ", "a">>),
   Str(<<" ">>), Str(<<>>), JS("number", <<"5">>)}

ChatData ==
  {Data(TRUE, Undefined, <<"{completion}">>, Undefined, NoOutput, c) : c \in Contents}
    \cup {NullData}

PrimaryReplies ==
  {Reply(st, d) : st \in ErrorStatuses, d \in ErrorData}
    \cup {Reply(st, d) : st \in OkStatuses, d \in ResponsesData}
    \cup {TransportFailure}

SecondaryReplies ==
  {Reply(st, d) : st \in ErrorStatuses, d \in ErrorData}
    \cup {Reply(st, d) : st \in OkStatuses, d \in ChatData}
    \cup {TransportFailure}

\* ------------------------------------------------------------------------
\* State
\* ------------------------------------------------------------------------
VARIABLES
  variant,          \* "server" (server.js) or "worker" (worker.js)
  apiKey,           \* OPENAI_API_KEY of the environment
  modelEnv,         \* CCD_AI_OPENAI_MODEL (server.js), OPENAI_MODEL (worker.js)
  req,              \* the inbound request
  pc,               \* "recv", "readBody", "primary", "secondary", "done"
  messages,         \* server.js: the message array of the request
  calls,            \* outbound provider calls issued, in order
  primReply,        \* the provider's reply to the primary call
  secReply,         \* the provider's reply to the secondary call
  responsesResult,  \* server.js: the primary attempt's result
  result,           \* the CompletionResult callOpenAI returned
  http,             \* the HTTP response sent
  escaped,          \* an exception left the handler
  hIn,              \* normalizeHistory: the argument
  hOut,             \* normalizeHistory: the value returned
  hpc,              \* "call" before, "ret" after normalizeHistory
  slots             \* concurrent handling: the locals of each request's handler

vars == <<variant, apiKey, modelEnv, req, pc, messages, calls, primReply, secReply,
          responsesResult, result, http, escaped, hIn, hOut, hpc, slots>>

histVars == <<hIn, hOut, hpc>>
concVars == <<slots>>
reqVars == <<variant, apiKey, modelEnv, req, pc, messages, calls, primReply, secReply,
             responsesResult, result, http, escaped>>

NoReply == [threw |-> FALSE, status |-> 0, data |-> NullData]

Reqs == 1..NumReqs

\* the handler of one request: its request, its position and its locals;
\* sent counts the HTTP responses it has sent
NewSlot(rq) ==
  [req |-> rq, pc |-> "recv", messages |-> <<>>, calls |-> <<>>,
   primReply |-> NoReply, secReply |-> NoReply,
   responsesResult |-> NoResult, result |-> NoResult,
   http |-> NoResponse, escaped |-> FALSE, sent |-> 0]

IdleRequest ==
  [method |-> "GET", path |-> "/api/health", body |-> RawBody(0, "blank", BodyNull)]

NoSlots == [r \in Reqs |-> NewSlot(IdleRequest)]

Init ==
  /\ variant \in {"server", "worker"}
  /\ apiKey \in ApiKeys
  /\ modelEnv \in ModelEnvs
  /\ req \in Requests
  /\ pc = "recv"
  /\ messages = <<>>
  /\ calls = <<>>
  /\ primReply = NoReply
  /\ secReply = NoReply
  /\ responsesResult = NoResult
  /\ result = NoResult
  /\ http = NoResponse
  /\ escaped = FALSE
  /\ hIn = NotArray
  /\ hOut = <<>>
  /\ hpc = "idle"
  /\ slots = NoSlots

\* the handler answers and ends
Finish(resp) ==
  /\ http' = resp
  /\ pc' = "done"

\* ------------------------------------------------------------------------
\* server.js: the http.createServer handler and callOpenAI
\* ------------------------------------------------------------------------
\* routing, up to the first await
ServerHandle ==
  /\ variant = "server"
  /\ pc = "recv"
  /\ IF req.method = "OPTIONS" /\ req.path \in ApiPaths
       THEN Finish(Preflight)
     ELSE IF req.path = "/api/health"
       THEN Finish(JsonHealth(Truthy(apiKey), OPENAI_MODEL_server(modelEnv)))
     ELSE IF req.path = "/api/chat"
       THEN IF req.method # "POST"
              THEN Finish(JsonError(405, <<"Method not allowed (use POST).">>))
              ELSE pc' = "readBody" /\ http' = http
     ELSE IF req.method # "GET" /\ req.method # "HEAD"
       THEN Finish(PlainText(405, <<"Method not allowed">>))
     ELSE \* serveStatic: the file exists, is missing, or cannot be read
          \E resp \in {StaticFile, PlainText(404, <<"Not found">>),
                        PlainText(500, <<"Server error">>)} : Finish(resp)
  /\ UNCHANGED <<variant, apiKey, modelEnv, req, messages, calls, primReply, secReply,
                 responsesResult, result, escaped, histVars, concVars>>

\* readJson returns or throws; callOpenAI runs up to the primary fetch
ServerBodyRead ==
  /\ variant = "server"
  /\ pc = "readBody"
  /\ LET body == readJson_server(req.body)
         input == FieldInput(body.val)
         history == FieldHistory(body.val)
         telemetry == FieldTelemetry(body.val)
         msgs == messagesOf(input, history, telemetry)
     IN IF body.threw
          THEN /\ Finish(PlainText(500, <<"Server error">>))
               /\ UNCHANGED <<messages, calls, result>>
        ELSE IF serverPrecheck(apiKey) # NoResult
          THEN /\ result' = serverPrecheck(apiKey)
               /\ Finish(respond(result', OPENAI_MODEL_server(modelEnv)))
               /\ UNCHANGED <<messages, calls>>
        ELSE /\ messages' = msgs
             /\ calls' = Append(calls, ResponsesCall(systemPrompt(telemetry),
                                                     transcript_server(msgs)))
             /\ pc' = "primary"
             /\ UNCHANGED <<result, http>>
  /\ UNCHANGED <<variant, apiKey, modelEnv, req, primReply, secReply, responsesResult,
                 escaped, histVars, concVars>>

\* the primary fetch settles: tryResponsesApi returns, callOpenAI decides
ServerPrimaryDone ==
  /\ variant = "server"
  /\ pc = "primary"
  /\ \E reply \in PrimaryReplies :
       LET rr == tryResponsesApi(reply)
       IN /\ primReply' = reply
          /\ IF rr.threw
               THEN /\ Finish(PlainText(500, <<"Server error">>))
                    /\ UNCHANGED <<calls, responsesResult, result>>
             ELSE IF rr.ok \/ rr.status \notin fallbackableStatuses
               THEN /\ responsesResult' = rr
                    /\ result' = rr
                    /\ Finish(respond(rr, OPENAI_MODEL_server(modelEnv)))
                    /\ UNCHANGED calls
             ELSE /\ responsesResult' = rr
                  /\ calls' = Append(calls, ChatCall(messages))
                  /\ pc' = "secondary"
                  /\ UNCHANGED <<result, http>>
  /\ UNCHANGED <<variant, apiKey, modelEnv, req, messages, secReply, escaped, histVars, concVars>>

\* the secondary fetch settles: tryChatCompletionsApi returns
ServerSecondaryDone ==
  /\ variant = "server"
  /\ pc = "secondary"
  /\ \E reply \in SecondaryReplies :
       LET cr == tryChatCompletionsApi(reply)
       IN /\ secReply' = reply
          /\ IF cr.threw
               THEN /\ Finish(PlainText(500, <<"Server error">>))
                    /\ UNCHANGED result
             ELSE /\ result' = IF cr.ok THEN cr ELSE compositeFailure(responsesResult, cr)
                  /\ Finish(respond(result', OPENAI_MODEL_server(modelEnv)))
  /\ UNCHANGED <<variant, apiKey, modelEnv, req, messages, calls, primReply,
                 responsesResult, escaped, histVars, concVars>>

\* ------------------------------------------------------------------------
\* worker.js: fetch and callOpenAI
\* ------------------------------------------------------------------------
\* mutant: the method of a /api/chat request is not checked
WorkerHandle_noMethodCheck ==
  /\ variant = "worker"
  /\ pc = "recv"
  /\ IF req.method = "OPTIONS" /\ req.path \in ApiPaths
       THEN Finish(Preflight)
     ELSE IF req.path = "/api/health"
       THEN Finish(JsonHealth(Truthy(apiKey), OPENAI_MODEL_worker(modelEnv)))
     ELSE IF req.path = "/api/chat"
       THEN pc' = "readBody" /\ http' = http
     ELSE Finish(JsonError(404, <<"Not found">>))
  /\ UNCHANGED <<variant, apiKey, modelEnv, req, messages, calls, primReply, secReply,
                 responsesResult, result, escaped, histVars, concVars>>

WorkerHandle ==
  /\ variant = "worker"
  /\ pc = "recv"
  /\ IF req.method = "OPTIONS" /\ req.path \in ApiPaths
       THEN Finish(Preflight)
     ELSE IF req.path = "/api/health"
       THEN Finish(JsonHealth(Truthy(apiKey), OPENAI_MODEL_worker(modelEnv)))
     ELSE IF req.path = "/api/chat"
       THEN IF req.method # "POST"
              THEN Finish(JsonError(405, <<"Method not allowed (use POST).">>))
              ELSE pc' = "readBody" /\ http' = http
     ELSE Finish(JsonError(404, <<"Not found">>))
  /\ UNCHANGED <<variant, apiKey, modelEnv, req, messages, calls, primReply, secReply,
                 responsesResult, result, escaped, histVars, concVars>>

\* readJson(request).catch(() => null); callOpenAI runs up to the fetch
WorkerBodyRead ==
  /\ variant = "worker"
  /\ pc = "readBody"
  /\ LET read == readJson_worker(req.body)
         body == IF read.threw THEN BodyNull ELSE read.val
         input == FieldInput(body)
         history == FieldHistory(body)
         telemetry == FieldTelemetry(body)
     IN IF workerPrecheck(apiKey, input) # NoResult
          THEN /\ result' = workerPrecheck(apiKey, input)
               /\ Finish(respond(result', result'.model))
               /\ UNCHANGED calls
        ELSE /\ calls' = Append(calls, ResponsesCall(systemPrompt(telemetry),
                                                     transcript_worker(input, history)))
             /\ pc' = "primary"
             /\ UNCHANGED <<result, http>>
  /\ UNCHANGED <<variant, apiKey, modelEnv, req, messages, primReply, secReply,
                 responsesResult, escaped, histVars, concVars>>

\* the fetch settles; an exception is not caught by fetch(request, env)
WorkerPrimaryDone ==
  /\ variant = "worker"
  /\ pc = "primary"
  /\ \E reply \in PrimaryReplies :
       LET res == withModel(workerResult(reply), OPENAI_MODEL_worker(modelEnv))
       IN /\ primReply' = reply
          /\ IF res.threw
               THEN /\ escaped' = TRUE
                    /\ pc' = "done"
                    /\ UNCHANGED <<result, http>>
             ELSE /\ result' = res
                  /\ Finish(respond(res, res.model))
                  /\ UNCHANGED escaped
  /\ UNCHANGED <<variant, apiKey, modelEnv, req, messages, calls, secReply,
                 responsesResult, histVars, concVars>>

\* ------------------------------------------------------------------------
\* normalizeHistory on its own
\* ------------------------------------------------------------------------
Digit == <<"0", "1", "2", "3", "4", "5", "6", "7", "8", "9">>

\* the i-th turn of a well-formed conversation; its content names i
BaseTurn(i) ==
  Turn(IF i % 2 = 1 THEN "user" ELSE "assistant",
       <<"m", Digit[(i \div 10) + 1], Digit[(i % 10) + 1]>>)

NullItem == Item("null", "undefined", Undefined)

SpecialItems ==
  {NullItem,
   Item("number", "undefined", Undefined),
   Item("object", "system", Str(<<"s">>)),
   Item("object", "undefined", Str(<<"x">>)),
   Item("object", "user", Undefined),
   Item("object", "user", JS("number", <<"7">>)),
   Turn("user", <<>>),
   Turn("assistant", <<" ", "\n">>),
   Turn("user", <<" ", "x", " ", "y", " ">>),
   Turn("assistant", Rep("a", MaxContentLen)),
   Turn("user", Rep("a", MaxContentLen - 1) \o <<" ", "b">>),
   Turn("user", <<" ">> \o Rep("a", MaxContentLen + 1))}

\* a conversation of n turns with the elements at the positions of S replaced
Replaced(n, S, item) ==
  SubSeq([i \in 1..n |-> IF i \in S THEN item ELSE BaseTurn(i)], 1, n)

HistoryInputs ==
  {NotArray}
    \cup {Arr(Replaced(n, {i, j}, NullItem)) :
            n \in 0..MaxHistLen, i \in 0..MaxHistLen, j \in 0..MaxHistLen}
    \cup UNION {{Arr(Replaced(n, {i}, item)) : i \in 1..n, item \in SpecialItems} :
                  n \in 1..MaxHistLen}

InitHist ==
  /\ hIn \in HistoryInputs
  /\ hOut = <<>>
  /\ hpc = "call"
  /\ variant = "worker"
  /\ apiKey = Undefined
  /\ modelEnv = Undefined
  /\ req = IdleRequest
  /\ pc = "done"
  /\ messages = <<>>
  /\ calls = <<>>
  /\ primReply = NoReply
  /\ secReply = NoReply
  /\ responsesResult = NoResult
  /\ result = NoResult
  /\ http = NoResponse
  /\ escaped = FALSE
  /\ slots = NoSlots

NormalizeCall ==
  /\ hpc = "call"
  /\ hOut' = normalizeHistory(hIn)
  /\ hpc' = "ret"
  /\ UNCHANGED <<hIn, reqVars, concVars>>

NextHist == NormalizeCall

SpecHist == InitHist /\ [][NextHist]_vars

Next ==
  \/ ServerHandle
  \/ ServerBodyRead
  \/ ServerPrimaryDone
  \/ ServerSecondaryDone
  \/ WorkerHandle
  \/ WorkerBodyRead
  \/ WorkerPrimaryDone

Spec == Init /\ [][Next]_vars

\* ------------------------------------------------------------------------
\* Requests handled concurrently: each handler runs up to its next await,
\* then any handler may run.  The environment is read, never written.
\* ------------------------------------------------------------------------
ConcBody(input) ==
  RawBody(64, "json",
          BodyObj(input,
                  Arr(<<Turn("user", <<" ", "q", " ">>), Turn("assistant", <<"a">>)>>),
                  Undefined))

ConcRequests ==
  {[method |-> "POST", path |-> "/api/chat", body |-> ConcBody(Str(<<"h", "i">>))],
   [method |-> "POST", path |-> "/api/chat", body |-> ConcBody(Str(<<"y", "o">>))],
   [method |-> "POST", path |-> "/api/chat", body |-> RawBody(7, "malformed", BodyNull)],
   [method |-> "GET", path |-> "/api/health", body |-> RawBody(0, "blank", BodyNull)],
   [method |-> "GET", path |-> "/", body |-> RawBody(0, "blank", BodyNull)]}

ConcPrimaryReplies ==
  {Reply(200, Data(TRUE, Undefined, <<"{response}">>, Str(<<"H", "i">>), NoOutput, Undefined)),
   Reply(404, Data(TRUE, Str(<<"model not found">>), <<"{error}">>, Undefined, NoOutput,
                   Undefined)),
   Reply(400, Data(TRUE, Str(<<"rate limited">>), <<"{error}">>, Undefined, NoOutput,
                   Undefined)),
   Reply(500, NullData),
   TransportFailure}

ConcSecondaryReplies ==
  {Reply(200, Data(TRUE, Undefined, <<"{completion}">>, Undefined, NoOutput,
                   Str(<<" ", "a">>))),
   Reply(429, Data(TRUE, Str(<<"rate limited">>), <<"{error}">>, Undefined, NoOutput,
                   Undefined)),
   TransportFailure}

InitConc ==
  /\ variant \in {"server", "worker"}
  /\ apiKey \in {Undefined, Str(<<"sk-test">>)}
  /\ modelEnv = Undefined
  /\ slots \in [Reqs -> {NewSlot(rq) : rq \in ConcRequests}]
  /\ req = IdleRequest
  /\ pc = "done"
  /\ messages = <<>>
  /\ calls = <<>>
  /\ primReply = NoReply
  /\ secReply = NoReply
  /\ responsesResult = NoResult
  /\ result = NoResult
  /\ http = NoResponse
  /\ escaped = FALSE
  /\ hIn = NotArray
  /\ hOut = <<>>
  /\ hpc = "idle"

\* the handler of a slot answers and ends
SlotFinish(s, resp) ==
  [s EXCEPT !.http = resp, !.pc = "done", !.sent = @ + 1]

\* mutant: the primary attempt's result is kept where the next request's
\* handler keeps its own
responsesOf_shared(r) == slots[(r % NumReqs) + 1].responsesResult

\* server.js callOpenAI: const responses, a local of the call
responsesOf(r) == slots[r].responsesResult

\* server.js, request r: routing, up to the first await
ServerHandleAt(r) ==
  LET s == slots[r]
  IN /\ variant = "server"
     /\ s.pc = "recv"
     /\ \E file \in {StaticFile, PlainText(404, <<"Not found">>),
                     PlainText(500, <<"Server error">>)} :
          slots' = [slots EXCEPT ![r] =
            IF s.req.method = "OPTIONS" /\ s.req.path \in ApiPaths
              THEN SlotFinish(s, Preflight)
            ELSE IF s.req.path = "/api/health"
              THEN SlotFinish(s, JsonHealth(Truthy(apiKey), OPENAI_MODEL_server(modelEnv)))
            ELSE IF s.req.path = "/api/chat"
              THEN IF s.req.method # "POST"
                     THEN SlotFinish(s, JsonError(405, <<"Method not allowed (use POST).">>))
                     ELSE [s EXCEPT !.pc = "readBody"]
            ELSE IF s.req.method # "GET" /\ s.req.method # "HEAD"
              THEN SlotFinish(s, PlainText(405, <<"Method not allowed">>))
            ELSE SlotFinish(s, file)]
     /\ UNCHANGED <<reqVars, histVars>>

\* server.js, request r: readJson settles, callOpenAI runs up to the fetch
ServerBodyReadAt(r) ==
  LET s == slots[r]
      body == readJson_server(s.req.body)
      input == FieldInput(body.val)
      history == FieldHistory(body.val)
      telemetry == FieldTelemetry(body.val)
      msgs == messagesOf(input, history, telemetry)
  IN /\ variant = "server"
     /\ s.pc = "readBody"
     /\ slots' = [slots EXCEPT ![r] =
          IF body.threw
            THEN SlotFinish(s, PlainText(500, <<"Server error">>))
          ELSE IF serverPrecheck(apiKey) # NoResult
            THEN SlotFinish([s EXCEPT !.result = serverPrecheck(apiKey)],
                            respond(serverPrecheck(apiKey), OPENAI_MODEL_server(modelEnv)))
          ELSE [s EXCEPT !.messages = msgs,
                         !.calls = Append(@, ResponsesCall(systemPrompt(telemetry),
                                                           transcript_server(msgs))),
                         !.pc = "primary"]]
     /\ UNCHANGED <<reqVars, histVars>>

\* server.js, request r: the primary fetch settles
ServerPrimaryDoneAt(r) ==
  LET s == slots[r]
  IN /\ variant = "server"
     /\ s.pc = "primary"
     /\ \E reply \in ConcPrimaryReplies :
          LET rr == tryResponsesApi(reply)
              t == [s EXCEPT !.primReply = reply]
          IN slots' = [slots EXCEPT ![r] =
               IF rr.threw
                 THEN SlotFinish(t, PlainText(500, <<"Server error">>))
               ELSE IF rr.ok \/ rr.status \notin fallbackableStatuses
                 THEN SlotFinish([t EXCEPT !.responsesResult = rr, !.result = rr],
                                 respond(rr, OPENAI_MODEL_server(modelEnv)))
               ELSE [t EXCEPT !.responsesResult = rr,
                              !.calls = Append(@, ChatCall(s.messages)),
                              !.pc = "secondary"]]
     /\ UNCHANGED <<reqVars, histVars>>

\* server.js, request r: the secondary fetch settles
ServerSecondaryDoneAt(r) ==
  LET s == slots[r]
  IN /\ variant = "server"
     /\ s.pc = "secondary"
     /\ \E reply \in ConcSecondaryReplies :
          LET cr == tryChatCompletionsApi(reply)
              t == [s EXCEPT !.secReply = reply]
              res == IF cr.ok THEN cr ELSE compositeFailure(responsesOf(r), cr)
          IN slots' = [slots EXCEPT ![r] =
               IF cr.threw
                 THEN SlotFinish(t, PlainText(500, <<"Server error">>))
               ELSE SlotFinish([t EXCEPT !.result = res],
                               respond(res, OPENAI_MODEL_server(modelEnv)))]
     /\ UNCHANGED <<reqVars, histVars>>

\* worker.js, request r: routing, up to the first await
WorkerHandleAt(r) ==
  LET s == slots[r]
  IN /\ variant = "worker"
     /\ s.pc = "recv"
     /\ slots' = [slots EXCEPT ![r] =
          IF s.req.method = "OPTIONS" /\ s.req.path \in ApiPaths
            THEN SlotFinish(s, Preflight)
          ELSE IF s.req.path = "/api/health"
            THEN SlotFinish(s, JsonHealth(Truthy(apiKey), OPENAI_MODEL_worker(modelEnv)))
          ELSE IF s.req.path = "/api/chat"
            THEN IF s.req.method # "POST"
                   THEN SlotFinish(s, JsonError(405, <<"Method not allowed (use POST).">>))
                   ELSE [s EXCEPT !.pc = "readBody"]
          ELSE SlotFinish(s, JsonError(404, <<"Not found">>))]
     /\ UNCHANGED <<reqVars, histVars>>

\* worker.js, request r: readJson settles, callOpenAI runs up to the fetch
WorkerBodyReadAt(r) ==
  LET s == slots[r]
      read == readJson_worker(s.req.body)
      body == IF read.threw THEN BodyNull ELSE read.val
      input == FieldInput(body)
      history == FieldHistory(body)
      telemetry == FieldTelemetry(body)
      pre == workerPrecheck(apiKey, input)
  IN /\ variant = "worker"
     /\ s.pc = "readBody"
     /\ slots' = [slots EXCEPT ![r] =
          IF pre # NoResult
            THEN SlotFinish([s EXCEPT !.result = pre], respond(pre, pre.model))
          ELSE [s EXCEPT !.calls = Append(@, ResponsesCall(systemPrompt(telemetry),
                                                           transcript_worker(input, history))),
                         !.pc = "primary"]]
     /\ UNCHANGED <<reqVars, histVars>>

\* worker.js, request r: the fetch settles; an exception leaves the handler
WorkerPrimaryDoneAt(r) ==
  LET s == slots[r]
  IN /\ variant = "worker"
     /\ s.pc = "primary"
     /\ \E reply \in ConcPrimaryReplies :
          LET res == withModel(workerResult(reply), OPENAI_MODEL_worker(modelEnv))
              t == [s EXCEPT !.primReply = reply]
          IN slots' = [slots EXCEPT ![r] =
               IF res.threw
                 THEN [t EXCEPT !.escaped = TRUE, !.pc = "done"]
               ELSE SlotFinish([t EXCEPT !.result = res], respond(res, res.model))]
     /\ UNCHANGED <<reqVars, histVars>>

ConcServerHandle == \E r \in Reqs : ServerHandleAt(r)
ConcServerBodyRead == \E r \in Reqs : ServerBodyReadAt(r)
ConcServerPrimaryDone == \E r \in Reqs : ServerPrimaryDoneAt(r)
ConcServerSecondaryDone == \E r \in Reqs : ServerSecondaryDoneAt(r)
ConcWorkerHandle == \E r \in Reqs : WorkerHandleAt(r)
ConcWorkerBodyRead == \E r \in Reqs : WorkerBodyReadAt(r)
ConcWorkerPrimaryDone == \E r \in Reqs : WorkerPrimaryDoneAt(r)

NextConc ==
  \/ ConcServerHandle
  \/ ConcServerBodyRead
  \/ ConcServerPrimaryDone
  \/ ConcServerSecondaryDone
  \/ ConcWorkerHandle
  \/ ConcWorkerBodyRead
  \/ ConcWorkerPrimaryDone

SpecConc == InitConc /\ [][NextConc]_vars

\* ------------------------------------------------------------------------
\* One request handled alone, as a function of the request and of the
\* provider's replies to its own calls: the result and the calls made
\* ------------------------------------------------------------------------
Outcome(res, cs) == [result |-> res, calls |-> cs]

\* server.js: readJson, then callOpenAI
callOpenAI_server(rq, prim, sec) ==
  LET body == readJson_server(rq.body)
      telemetry == FieldTelemetry(body.val)
      msgs == messagesOf(FieldInput(body.val), FieldHistory(body.val), telemetry)
      first == ResponsesCall(systemPrompt(telemetry), transcript_server(msgs))
      responses == tryResponsesApi(prim)
      chat == tryChatCompletionsApi(sec)
  IN IF body.threw THEN Outcome(NoResult, <<>>)
     ELSE IF serverPrecheck(apiKey) # NoResult THEN Outcome(serverPrecheck(apiKey), <<>>)
     ELSE IF responses.threw THEN Outcome(NoResult, <<first>>)
     ELSE IF responses.ok \/ responses.status \notin fallbackableStatuses
       THEN Outcome(responses, <<first>>)
     ELSE IF chat.threw THEN Outcome(NoResult, <<first, ChatCall(msgs)>>)
     ELSE IF chat.ok THEN Outcome(chat, <<first, ChatCall(msgs)>>)
     ELSE Outcome(compositeFailure(responses, chat), <<first, ChatCall(msgs)>>)

\* worker.js: readJson(request).catch(() => null), then callOpenAI
callOpenAI_worker(rq, prim) ==
  LET read == readJson_worker(rq.body)
      body == IF read.threw THEN BodyNull ELSE read.val
      input == FieldInput(body)
      first == ResponsesCall(systemPrompt(FieldTelemetry(body)),
                             transcript_worker(input, FieldHistory(body)))
      res == withModel(workerResult(prim), OPENAI_MODEL_worker(modelEnv))
  IN IF workerPrecheck(apiKey, input) # NoResult
       THEN Outcome(workerPrecheck(apiKey, input), <<>>)
     ELSE IF res.threw THEN Outcome(NoResult, <<first>>)
     ELSE Outcome(res, <<first>>)

\* the outcome of a request handled alone
AloneOutcome(rq, prim, sec) ==
  IF rq.path # "/api/chat" \/ rq.method # "POST" THEN Outcome(NoResult, <<>>)
  ELSE IF variant = "server" THEN callOpenAI_server(rq, prim, sec)
  ELSE callOpenAI_worker(rq, prim)

\* the single-request machine ends with the outcome of the function
AloneAgrees ==
  pc = "done" => Outcome(result, calls) = AloneOutcome(req, primReply, secReply)

\* ------------------------------------------------------------------------
\* Properties of normalizeHistory (specification SpecHist)
\* ------------------------------------------------------------------------
\* a turn the sanitizer must keep: an object with a user or assistant role
\* and a string content holding at least one non-white-space character
ValidTurn(item) ==
  /\ item.t = "object"
  /\ item.role \in {"user", "assistant"}
  /\ item.content.t = "string"
  /\ \E i \in 1..Len(item.content.v) : ~IsWs(item.content.v[i])

ValidIdx == {i \in 1..Len(hIn.items) : ValidTurn(hIn.items[i])}

\* C9 as stated: at most 24 elements, each with a user or assistant role and a
\* content that is non-empty, trimmed and at most 4000 characters long.
CE_C9 ==
  hpc = "ret" =>
    /\ Len(hOut) <= 24
    /\ \A j \in 1..Len(hOut) :
         /\ hOut[j].role \in {"user", "assistant"}
         /\ hOut[j].content # <<>>
         /\ Trim(hOut[j].content) = hOut[j].content
         /\ Len(hOut[j].content) <= 4000

\* C9 (amended): at most 24 elements, each with a user or assistant role and a
\* content that is non-empty, starts with a non-white-space character and is at
\* most 4000 characters long; it ends in white space only when it is exactly
\* 4000 characters long (the cut fell behind a white-space character).  A
\* value that is not an array yields the empty sequence.
Thm_C9 ==
  hpc = "ret" =>
    /\ Len(hOut) <= 24
    /\ Len(hOut) <= Len(hIn.items)
    /\ ~hIn.isArray => hOut = <<>>
    /\ \A j \in 1..Len(hOut) :
         /\ hOut[j].role \in {"user", "assistant"}
         /\ hOut[j].content # <<>>
         /\ ~IsWs(hOut[j].content[1])
         /\ Len(hOut[j].content) <= 4000
         /\ IsWs(hOut[j].content[Len(hOut[j].content)]) => Len(hOut[j].content) = 4000

\* a history of more than 24 elements with invalid ones among them, one of
\* whose contents was cut to 4000 characters behind a white-space character
Wit_C9 ==
  /\ hpc = "ret"
  /\ Len(hIn.items) > 24
  /\ Len(hOut) = 24
  /\ \E j \in 1..Len(hOut) :
       /\ Len(hOut[j].content) = 4000
       /\ IsWs(hOut[j].content[4000])

\* C10: the result is the last min(24, k) of the k valid turns, sanitized, in
\* their original order; invalid turns neither count towards the 24 nor
\* displace valid ones.
Thm_C10 ==
  (hpc = "ret" /\ hIn.isArray) =>
    LET k == Cardinality(ValidIdx)
        m == Min(24, k)
        \* the valid index with exactly m - j valid indices behind it
        src(j) == CHOOSE i \in ValidIdx : Cardinality({x \in ValidIdx : x > i}) = m - j
    IN /\ Len(hOut) = m
       /\ \A j \in 1..m :
            /\ hOut[j].role = hIn.items[src(j)].role
            /\ hOut[j].content = SlicePrefix(Trim(hIn.items[src(j)].content.v), 4000)

\* more than 24 valid turns with an invalid one among the last 24 elements
Wit_C10 ==
  /\ hpc = "ret"
  /\ hIn.isArray
  /\ Cardinality(ValidIdx) > 24
  /\ \E i \in 1..Len(hIn.items) : i \notin ValidIdx /\ i > Len(hIn.items) - 24 /\ i < Len(hIn.items)
  /\ Len(hOut) = 24

\* ------------------------------------------------------------------------
\* Properties of the request handlers (specification Spec)
\* ------------------------------------------------------------------------
ChatPost == req.path = "/api/chat" /\ req.method = "POST"

\* the request body as the handler hands it to callOpenAI, once read
BodyThrew ==
  IF variant = "server" THEN readJson_server(req.body).threw
  ELSE readJson_worker(req.body).threw

BodyRead == ChatPost /\ pc \notin {"recv", "readBody"}

\* callOpenAI was called for the request
StrategyInvoked == BodyRead /\ ~(variant = "server" /\ BodyThrew)

\* the input field callOpenAI received
GivenInput ==
  IF BodyThrew \/ req.body.text # "json" THEN Undefined ELSE FieldInput(req.body.val)

\* the input is absent, or empty once coerced to a string and trimmed
InputBlank ==
  \/ GivenInput.t \in {"undefined", "null"}
  \/ GivenInput.t = "string" /\ \A i \in 1..Len(GivenInput.v) : IsWs(GivenInput.v[i])

PrimaryCalled == \E i \in 1..Len(calls) : calls[i].proto = "responses"
SecondaryCalled == \E i \in 1..Len(calls) : calls[i].proto = "chat"
PrimarySettled == primReply # NoReply
SecondarySettled == secReply # NoReply

\* s contains sub as a contiguous part
Contains(s, sub) ==
  \E i \in 0..(Len(s) - Len(sub)) : SubSeq(s, i + 1, i + Len(sub)) = sub

\* the primary call failed with an HTTP status the claim calls eligible
PrimaryFailedEligible ==
  /\ PrimarySettled
  /\ ~primReply.threw
  /\ primReply.status \in {400, 404, 405, 415}

\* the secondary reply is a success whose first choice has string content
SecondaryContent == secReply.data.content
SecondarySuccess ==
  /\ SecondarySettled
  /\ ~secReply.threw
  /\ StatusOk(secReply.status)
  /\ SecondaryContent.t = "string"

\* the final result is { ok: true, status: 200, text } and nothing of the
\* primary's failure is in it or in the answer
FinalOkWith(text) ==
  /\ result.ok
  /\ result.status = 200
  /\ result.text = text
  /\ result.error = <<>>
  /\ http.status = 200 /\ http.kind = "chat" /\ http.text = text /\ http.error = <<>>

\* C1 as stated: in server.js, after a primary failure with a status in
\* {400, 404, 405, 415} the secondary call is issued, and a secondary success
\* with non-empty string content gives ok: true, status 200, text = content.
CE_C1 ==
  (variant = "server" /\ PrimaryFailedEligible) =>
    /\ SecondaryCalled
    /\ (SecondarySuccess /\ SecondaryContent.v # <<>>) => FinalOkWith(SecondaryContent.v)

\* C1 (amended): as stated, for string content that is non-empty after
\* trimming; the text is the content as received, untrimmed.
Thm_C1 ==
  (variant = "server" /\ PrimaryFailedEligible) =>
    /\ SecondaryCalled
    /\ Len(calls) = 2
    /\ pc \in {"secondary", "done"}
    /\ (SecondarySuccess /\ \E i \in 1..Len(SecondaryContent.v) : ~IsWs(SecondaryContent.v[i]))
         => (pc = "done" /\ FinalOkWith(SecondaryContent.v))

\* a 404 from the primary, then content with a leading blank from the secondary
Wit_C1 ==
  /\ variant = "server"
  /\ pc = "done"
  /\ PrimaryFailedEligible
  /\ primReply.status = 404
  /\ SecondarySuccess
  /\ SecondaryContent.v = <<" ", "a">>
  /\ result.ok
  /\ result.text = <<" ", "a">>

\* the error message the code reads off a failed reply
ReplyMessage(reply) ==
  IF ~reply.data.json THEN <<"Unknown error">>
  ELSE IF reply.data.errMsg.t = "string" /\ reply.data.errMsg.v # <<>>
    THEN reply.data.errMsg.v
  ELSE reply.data.raw

\* C2: a primary failure with a status outside {400, 404, 405, 415} is final:
\* no secondary call, and the result carries the primary's status and message.
Thm_C2 ==
  (/\ PrimarySettled
   /\ ~primReply.threw
   /\ ~StatusOk(primReply.status)
   /\ primReply.status \notin {400, 404, 405, 415}) =>
    /\ pc = "done"
    /\ ~SecondaryCalled
    /\ Len(calls) = 1
    /\ ~result.ok
    /\ result.status = primReply.status
    /\ result.error = ReplyMessage(primReply)
    /\ http.status = primReply.status /\ http.kind = "error"
    /\ http.error = ReplyMessage(primReply)

\* the server gets a 500 with a message from the primary and relays it
Wit_C2 ==
  /\ variant = "server"
  /\ pc = "done"
  /\ PrimarySettled
  /\ primReply.status = 500
  /\ primReply.data.errMsg = Str(<<"rate limited">>)
  /\ result.status = 500
  /\ result.error = <<"rate limited">>
  /\ Len(calls) = 1

\* the secondary attempt failed: a non-success status, or no text
SecondaryFailed ==
  /\ SecondarySettled
  /\ ~secReply.threw
  /\ \/ ~StatusOk(secReply.status)
     \/ SecondaryContent.t # "string"
     \/ \A i \in 1..Len(SecondaryContent.v) : IsWs(SecondaryContent.v[i])

SecondaryStatus == IF StatusOk(secReply.status) THEN 502 ELSE secReply.status
SecondaryMessage ==
  IF StatusOk(secReply.status) THEN <<"OpenAI response missing text.">>
  ELSE ReplyMessage(secReply)

\* C3: when both attempts fail the result is ok: false with the secondary
\* attempt's status, and its error holds both labels, each followed by that
\* attempt's message.
Thm_C3 ==
  (variant = "server" /\ PrimaryFailedEligible /\ SecondaryFailed) =>
    /\ pc = "done"
    /\ ~result.ok
    /\ result.status = SecondaryStatus
    /\ Contains(result.error, <<"Responses API error: ">> \o ReplyMessage(primReply))
    /\ Contains(result.error, <<"Chat Completions error: ">> \o SecondaryMessage)
    /\ http.status = SecondaryStatus /\ http.kind = "error" /\ http.error = result.error

\* a 404 then a 429, with different messages
Wit_C3 ==
  /\ variant = "server"
  /\ pc = "done"
  /\ PrimaryFailedEligible /\ primReply.status = 404
  /\ primReply.data.errMsg = Str(<<"model not found">>)
  /\ SecondaryFailed /\ secReply.status = 429
  /\ secReply.data.errMsg = Str(<<"rate limited">>)
  /\ result.status = 429

\* the primary reply has a success status but no text can be recovered
EmptyResponse ==
  /\ PrimarySettled
  /\ ~primReply.threw
  /\ StatusOk(primReply.status)
  /\ \/ primReply.data.output_text.t # "string"
     \/ \A i \in 1..Len(primReply.data.output_text.v) : IsWs(primReply.data.output_text.v[i])
  /\ primReply.data.output.kind # "noniterable"
  /\ \A i \in 1..Len(primReply.data.output.items) :
       \A j \in 1..Len(primReply.data.output.items[i]) :
         LET part == primReply.data.output.items[i][j]
         IN (part.type = "output_text" /\ part.text.t = "string")
              => \A n \in 1..Len(part.text.v) : IsWs(part.text.v[n])

\* C4 as stated: in server.js an empty primary response is retried via the
\* secondary protocol before a final result is produced.
CE_C4 ==
  (variant = "server" /\ EmptyResponse /\ pc = "done") => SecondaryCalled

\* C4 (amended): in server.js an empty primary response is final: the result
\* is ok: false with status 502 and the missing-text error, and the secondary
\* protocol is never called.
Thm_C4 ==
  (variant = "server" /\ EmptyResponse) =>
    /\ pc = "done"
    /\ ~SecondaryCalled
    /\ Len(calls) = 1
    /\ result = Fail(502, <<"OpenAI response missing text.">>)
    /\ http.status = 502 /\ http.kind = "error"

\* a 200 whose output parts hold white space only
Wit_C4 ==
  /\ variant = "server"
  /\ pc = "done"
  /\ EmptyResponse
  /\ primReply.status = 200
  /\ primReply.data.output.kind = "array" /\ Len(primReply.data.output.items) > 0
  /\ result.status = 502

\* C5: without a credential the strategy returns ok: false, status 500 and no
\* provider call is ever issued, whatever the input, history and telemetry.
Thm_C5 ==
  ~Truthy(apiKey) =>
    /\ calls = <<>>
    /\ StrategyInvoked =>
         /\ pc = "done"
         /\ ~result.ok
         /\ result.status = 500
         /\ result.error # <<>>
         /\ http.status = 500 /\ http.kind = "error"

\* the worker, an empty credential and a blank input
Wit_C5 ==
  /\ variant = "worker"
  /\ apiKey = Str(<<>>)
  /\ StrategyInvoked
  /\ req.body.text = "json"
  /\ GivenInput = Str(<<" ", " ">>)
  /\ result.status = 500

\* C6: with a credential, an absent or blank input gives ok: false, status 400
\* and no provider call, in both variants.
CE_C6 ==
  (Truthy(apiKey) /\ StrategyInvoked /\ InputBlank) =>
    /\ pc = "done"
    /\ calls = <<>>
    /\ ~result.ok
    /\ result.status = 400

\* C7: a malformed body under the size limit ends, with a credential, in the
\* 400 JSON error envelope, as an empty body does.
CE_C7 ==
  (/\ ChatPost
   /\ req.body.text = "malformed"
   /\ req.body.size <= MaxBodyBytes
   /\ Truthy(apiKey)
   /\ BodyRead) =>
    /\ pc = "done"
    /\ ~escaped
    /\ http.status = 400 /\ http.ctype = "json" /\ http.kind = "error"

\* an error was raised while the request was handled
ErrorRaised ==
  \/ BodyRead /\ BodyThrew
  \/ PrimarySettled /\ primReply.threw
  \/ PrimarySettled /\ ~primReply.threw /\ StatusOk(primReply.status)
       /\ primReply.data.output.kind = "noniterable"
       /\ (primReply.data.output_text.t # "string"
             \/ \A i \in 1..Len(primReply.data.output_text.v) :
                  IsWs(primReply.data.output_text.v[i]))
  \/ SecondarySettled /\ secReply.threw

\* C8: every error raised while an /api/ request is handled is answered with
\* a JSON envelope { ok: false, error }; none escapes the handler.
CE_C8 ==
  (req.path \in ApiPaths /\ ErrorRaised) =>
    /\ pc = "done"
    /\ ~escaped
    /\ http.sent /\ http.ctype = "json" /\ http.kind = "error"


\* C11: in worker.js an empty primary response gives ok: false with status
\* 502 and the missing-text error; no secondary call is made, exactly one
\* outbound call occurs.
Thm_C11 ==
  (variant = "worker" /\ EmptyResponse) =>
    /\ pc = "done"
    /\ result = Fail(502, <<"OpenAI response missing text.">>)
    /\ Len(calls) = 1
    /\ calls[1].proto = "responses"
    /\ ~SecondaryCalled
    /\ http.status = 502 /\ http.kind = "error"

\* the worker gets a 200 whose output holds no output_text part with text
Wit_C11 ==
  /\ variant = "worker"
  /\ pc = "done"
  /\ EmptyResponse
  /\ primReply.status = 200
  /\ primReply.data.output_text = Undefined
  /\ primReply.data.output = OutputArr(<<>>)
  /\ result.status = 502

PrimaryInFlight == PrimaryCalled /\ ~PrimarySettled
SecondaryInFlight == SecondaryCalled /\ ~SecondarySettled

\* C12: a request issues at most two provider calls, at most one per
\* protocol; the secondary call exists only once the primary's outcome is
\* known, so the two are never in flight together.
Thm_C12 ==
  /\ Len(calls) <= 2
  /\ Cardinality({i \in 1..Len(calls) : calls[i].proto = "responses"}) <= 1
  /\ Cardinality({i \in 1..Len(calls) : calls[i].proto = "chat"}) <= 1
  /\ Len(calls) >= 1 => calls[1].proto = "responses"
  /\ SecondaryCalled => (PrimarySettled /\ ~primReply.threw /\ ~StatusOk(primReply.status))
  /\ ~(PrimaryInFlight /\ SecondaryInFlight)
  /\ variant = "worker" => Len(calls) <= 1

\* the secondary call is in flight after the primary failed with a 404
Wit_C12 ==
  /\ variant = "server"
  /\ pc = "secondary"
  /\ Len(calls) = 2
  /\ calls[1].proto = "responses" /\ calls[2].proto = "chat"
  /\ primReply.status = 404
  /\ SecondaryInFlight


\* the configured model name: the environment's setting, or the variant's
\* default when it is absent or empty
ConfiguredModel ==
  IF modelEnv.t = "string" /\ modelEnv.v # <<>> THEN modelEnv.v
  ELSE IF variant = "server" THEN <<"gpt-4.1-mini">> ELSE <<"gpt-4.1">>

\* C13: a POST /api/chat whose CompletionResult is ok is answered 200 with
\* { ok: true, text, model }, model being the configured model name; one that
\* is not ok is answered with the result's status and { ok: false, error }.
Thm_C13 ==
  (ChatPost /\ result # NoResult) =>
    /\ pc = "done"
    /\ http.sent /\ http.ctype = "json"
    /\ result.ok =>
         /\ http.status = 200
         /\ http.kind = "chat"
         /\ http.text = result.text
         /\ http.model = ConfiguredModel
         /\ http.error = <<>>
    /\ ~result.ok =>
         /\ http.status = result.status
         /\ http.kind = "error"
         /\ http.error = result.error
         /\ http.text = <<>>

\* the worker, with a model configured, relays the provider's text
Wit_C13 ==
  /\ variant = "worker"
  /\ modelEnv = Str(<<"gpt-x">>)
  /\ ChatPost /\ pc = "done"
  /\ result.ok
  /\ http.status = 200 /\ http.text = <<"H", "i">> /\ http.model = <<"gpt-x">>


\* C14: a request to /api/chat that is neither POST nor OPTIONS is answered
\* 405 with { ok: false, error }, its body is not read and no provider call
\* is made; an OPTIONS request to /api/chat is answered 204.
Thm_C14 ==
  (req.path = "/api/chat" /\ req.method # "POST") =>
    /\ pc \in {"recv", "done"}
    /\ calls = <<>>
    /\ result = NoResult
    /\ ~escaped
    /\ pc = "done" =>
         IF req.method = "OPTIONS"
           THEN http.sent /\ http.status = 204 /\ http.kind = "empty"
           ELSE /\ http.sent /\ http.status = 405
                /\ http.ctype = "json" /\ http.kind = "error"
                /\ http.error # <<>>

\* a PUT with a well-formed chat body and a credential is refused
Wit_C14 ==
  /\ variant = "worker"
  /\ Truthy(apiKey)
  /\ req.path = "/api/chat" /\ req.method = "PUT"
  /\ req.body.text = "json"
  /\ pc = "done"
  /\ http.status = 405


\* C15: GET /api/health is answered 200 with ok: true and hasKey telling
\* whether a credential is configured (false when absent or empty); no
\* provider call is made.
Thm_C15 ==
  (req.path = "/api/health" /\ req.method = "GET") =>
    /\ pc \in {"recv", "done"}
    /\ calls = <<>>
    /\ ~escaped
    /\ pc = "done" =>
         /\ http.sent /\ http.status = 200
         /\ http.ctype = "json" /\ http.kind = "health"
         /\ http.hasKey = (apiKey.t = "string" /\ apiKey.v # <<>>)
         /\ http.model = ConfiguredModel

\* the server, with an empty credential, reports hasKey: false
Wit_C15 ==
  /\ variant = "server"
  /\ apiKey = Str(<<>>)
  /\ req.path = "/api/health" /\ req.method = "GET"
  /\ pc = "done"
  /\ http.kind = "health" /\ ~http.hasKey


\* the primary attempt's result, in the variant that handled the request
PrimaryResult == IF variant = "server" THEN responsesResult ELSE result

\* the primary call came back with a success status
PrimarySucceeded ==
  PrimarySettled /\ ~primReply.threw /\ StatusOk(primReply.status)

\* output_text is a string that is non-empty after trimming
HasOutputText ==
  /\ primReply.data.output_text.t = "string"
  /\ Trim(primReply.data.output_text.v) # <<>>

\* C17: on a primary response with a success status, a non-blank output_text
\* is the result text as it stands and the output array is ignored; only
\* otherwise is the text the output_text parts joined by newlines and
\* trimmed; and both hosting variants give the same text for the same reply.
CE_C17 ==
  PrimarySucceeded =>
    /\ HasOutputText =>
         /\ PrimaryResult.ok
         /\ PrimaryResult.text = primReply.data.output_text.v
    /\ (~HasOutputText /\ PrimaryResult.ok) =>
         PrimaryResult.text = chunkText(primReply.data)
    /\ tryResponsesApi(primReply).text = workerResult(primReply).text


\* the history and telemetry fields callOpenAI received
GivenHistory ==
  IF BodyThrew \/ req.body.text # "json" THEN NotArray ELSE FieldHistory(req.body.val)
GivenTelemetry ==
  IF BodyThrew \/ req.body.text # "json" THEN Undefined ELSE FieldTelemetry(req.body.val)

\* one line per message: "User: <content>" or "Assistant: <content>"
LineOf(m) ==
  IF m.role = "user" THEN <<"User: ">> \o m.content
  ELSE IF m.role = "assistant" THEN <<"Assistant: ">> \o m.content
  ELSE <<"?">>

\* the lines of a transcript, split at the newline fragments
RECURSIVE LinesOf(_)
LinesOf(msgs) ==
  IF msgs = <<>> THEN <<>>
  ELSE IF Len(msgs) = 1 THEN LineOf(msgs[1])
  ELSE LineOf(msgs[1]) \o <<"\n">> \o LinesOf(Tail(msgs))

\* C18: in server.js both attempts carry the same conversation: the message
\* array is the system instruction, then the sanitized history in order, then
\* the new user turn; the primary transcript is the non-system messages in
\* that order, one per line, as "User: ..." or "Assistant: ...", and the
\* primary instruction is the system message's content.
Thm_C18 ==
  (variant = "server" /\ PrimaryCalled) =>
    LET n == Len(messages)
        turns == SubSeq(messages, 2, n)
    IN /\ n >= 2
       /\ messages[1].role = "system"
       /\ messages[1].content = systemPrompt(GivenTelemetry)
       /\ SubSeq(messages, 2, n - 1) = normalizeHistory(GivenHistory)
       /\ messages[n] = [role |-> "user", content |-> userInputOf(GivenInput)]
       /\ \A i \in 2..n : messages[i].role \in {"user", "assistant"}
       /\ calls[1].proto = "responses"
       /\ calls[1].instructions = messages[1].content
       /\ calls[1].input = LinesOf(turns)
       /\ SecondaryCalled =>
            /\ Len(calls) = 2
            /\ calls[2].proto = "chat"
            /\ calls[2].messages = messages

\* both attempts were made for a request with history turns to carry
Wit_C18 ==
  /\ variant = "server"
  /\ SecondaryCalled
  /\ Len(messages) = 4
  /\ messages[2].role = "user" /\ messages[3].role = "assistant"
  /\ Len(calls[2].messages) = 4
  /\ pc = "done"


\* a CompletionResult is well-formed
WellFormed(r) ==
  /\ r.ok =>
       /\ r.status = 200
       /\ Trim(r.text) # <<>>
       /\ r.error = <<>>
  /\ ~r.ok =>
       /\ r.error # <<>>
       /\ ~StatusOk(r.status)
       /\ r.status >= 100
       /\ r.text = <<>>

\* the CompletionResults the request has produced so far
ProducedResults ==
  {r \in {result, responsesResult} : r # NoResult /\ ~r.threw}

SlotOutcome(s) == Outcome(s.result, s.calls)

\* C16: requests are handled independently: under any interleaving of the
\* handlers at their awaits, each request ends with the CompletionResult
\* (and the provider calls) it would have had if handled alone, given the
\* same environment and the same replies to its own calls.
Thm_C16 ==
  \A r \in Reqs :
    /\ slots[r].pc = "done" =>
         SlotOutcome(slots[r]) =
           AloneOutcome(slots[r].req, slots[r].primReply, slots[r].secReply)
    /\ slots[r].pc # "done" => slots[r].result = NoResult

\* two chat requests were in their secondary attempt at the same time with
\* different primary failures, and the first has ended with its own
Wit_C16 ==
  /\ variant = "server"
  /\ slots[1].pc = "done"
  /\ slots[2].pc = "secondary"
  /\ slots[1].responsesResult.status = 404
  /\ slots[2].responsesResult.status = 400
  /\ slots[1].req # slots[2].req
  /\ ~slots[1].result.ok /\ slots[1].result.status = 429

\* C20: once its outbound calls have completed, every request is in a
\* terminal state in which exactly one HTTP response has been sent; a
\* request whose call has not completed holds back no other request.
CE_C20 ==
  \A r \in Reqs :
    slots[r].pc = "done" => slots[r].sent = 1 /\ slots[r].http.sent

====
